---- MODULE Spec2Model ----
(***************************************************************************)
(* A model of the sequoia signing mechanism of containers/image            *)
(* (signature/internal/sequoia/rust): the SequoiaMechanism object with its *)
(* keystore, certificate store and policy, the verification Helper, and    *)
(* the extern "C" entry points with their error channel.                   *)
(*                                                                         *)
(* The OpenPGP library, the certificate store and the keystore are         *)
(* external crates.  They are modelled by the contract the code relies on: *)
(* a certificate is a list of keys, the certificate store is an ordered    *)
(* list of certificates, the keystore is the set of keys whose secret      *)
(* material it holds plus the set of keys it has unlocked.  A call into an *)
(* external crate that returns a Result may fail; which call fails is the  *)
(* input "fault" of the entry point.                                       *)
(***************************************************************************)
EXTENDS Integers, Sequences, FiniteSets, TLC

(***************************************************************************)
(* Bounds of the model.                                                    *)
(***************************************************************************)
\* Records in an import blob.
MaxBlob == 2
\* Bytes in a payload handed to sign.
MaxData == 1
\* Compression/encryption layers around an unsigned verify input.
MaxLayers == 2
\* Longest list of results in a signature group handed to Helper::check.
MaxResults == 2

(***************************************************************************)
(* Option values: a nullable pointer or an Option<T> is a sequence of      *)
(* length at most one.                                                     *)
(***************************************************************************)
None == <<>>
Some(x) == <<x>>
IsSome(o) == Len(o) = 1
IsNone(o) == Len(o) = 0
Unwrap(o) == o[1]

(***************************************************************************)
(* The universe of keys and certificates the environment can present.      *)
(*   kA1  primary of cA: signing, unprotected secret, legacy algorithm     *)
(*        (accepted by the default policy only)                            *)
(*   kA2  subkey of cA: encryption only, unprotected secret                *)
(*   kB1  primary of cB: certification only, secret protected by "pw"      *)
(*   kB2  subkey of cB: signing, secret protected by "pw"                  *)
(*   kC1  primary of cC: signing, no secret material (public only)         *)
(* cC also lists kA1 as a subkey, so the handle of kA1 resolves to two     *)
(* certificates once both are stored.                                      *)
(***************************************************************************)
AllKeys == {"kA1", "kA2", "kB1", "kB2", "kC1"}
AllCerts == {"cA", "cB", "cC"}

\* The keys of a certificate, primary key first (cert.keys()).
CertKeys(c) ==
    CASE c = "cA" -> <<"kA1", "kA2">>
      [] c = "cB" -> <<"kB1", "kB2">>
      [] c = "cC" -> <<"kC1", "kA1">>

\* The fingerprint of a key, as bytes.
KeyFingerprint(k) ==
    CASE k = "kA1" -> <<161, 1>>
      [] k = "kA2" -> <<162, 2>>
      [] k = "kB1" -> <<177, 1>>
      [] k = "kB2" -> <<178, 2>>
      [] k = "kC1" -> <<193, 1>>

\* Keys whose key flags allow signing (for_signing()).
SigningCapable == {"kA1", "kB2", "kC1"}
\* Keys that come with secret key material in their certificate.
HasSecret == {"kA1", "kA2", "kB1", "kB2"}
\* Keys whose secret material is password protected, all by the password "pw".
Protected == {"kB1", "kB2"}
\* Keys using an algorithm that only the default policy accepts.
LegacyAlgo == {"kA1"}

\* cert.fingerprint(): the fingerprint of the primary key.
CertFingerprint(c) == KeyFingerprint(CertKeys(c)[1])

\* The keys of a certificate as a set.
KeySet(c) == {CertKeys(c)[i] : i \in 1..Len(CertKeys(c))}

(***************************************************************************)
(* Policies.  The configuration read by parse_default_config() is either   *)
(* "default" or "hardened"; a hardened policy rejects legacy algorithms.   *)
(***************************************************************************)
Policies == {"default", "hardened"}
PolicyAccepts(p, k) == p = "default" \/ k \notin LegacyAlgo

(***************************************************************************)
(* Hex encoding of fingerprints (Fingerprint::to_hex) and parsing of key   *)
(* handles (KeyHandle::from_str).  Strings are sequences of characters.    *)
(***************************************************************************)
HexDigits == <<"0", "1", "2", "3", "4", "5", "6", "7",
               "8", "9", "A", "B", "C", "D", "E", "F">>
LowerHexDigits == <<"0", "1", "2", "3", "4", "5", "6", "7",
                    "8", "9", "a", "b", "c", "d", "e", "f">>

RECURSIVE to_hex(_)
to_hex(bytes) ==
    IF bytes = <<>> THEN <<>>
    ELSE <<HexDigits[(bytes[1] \div 16) + 1], HexDigits[(bytes[1] % 16) + 1]>>
         \o to_hex(Tail(bytes))

\* The value of a hex digit, upper or lower case; -1 for any other character.
HexValue(ch) ==
    IF \E i \in 1..16 : HexDigits[i] = ch
    THEN (CHOOSE i \in 1..16 : HexDigits[i] = ch) - 1
    ELSE IF \E i \in 1..16 : LowerHexDigits[i] = ch
    THEN (CHOOSE i \in 1..16 : LowerHexDigits[i] = ch) - 1
    ELSE -1

\* Spaces are skipped by the pretty hex decoder.
RECURSIVE StripSpaces(_)
StripSpaces(s) ==
    IF s = <<>> THEN <<>>
    ELSE IF s[1] = " " THEN StripSpaces(Tail(s))
    ELSE <<s[1]>> \o StripSpaces(Tail(s))

RECURSIVE DecodeHex(_)
DecodeHex(s) ==
    IF s = <<>> THEN <<>>
    ELSE <<HexValue(s[1]) * 16 + HexValue(s[2])>> \o DecodeHex(Tail(Tail(s)))

\* key_handle.parse(): Some(bytes) for an even number of hex digits, None
\* (an error) for anything else.
ParseKeyHandle(s) ==
    LET t == StripSpaces(s) IN
    IF Len(t) % 2 = 0 /\ Len(t) > 0 /\ \A i \in 1..Len(t) : HexValue(t[i]) >= 0
    THEN Some(DecodeHex(t))
    ELSE None

\* CStr::to_str(): a C string is valid UTF-8 unless it holds the byte 0xFF,
\* written "\\xFF" here.
InvalidByte == "xFF"
to_str(cstr) ==
    IF \E i \in 1..Len(cstr) : cstr[i] = InvalidByte THEN None ELSE Some(cstr)

(***************************************************************************)
(* The certificate store (sequoia_cert_store::CertStore): an ordered list  *)
(* of certificates without repetition, in store iteration order.           *)
(***************************************************************************)
\* The stored certificates that have a key with the handle, in store order.
RECURSIVE CertsWithKey(_, _)
CertsWithKey(store, kh) ==
    IF store = <<>> THEN <<>>
    ELSE (IF \E k \in KeySet(store[1]) : KeyFingerprint(k) = kh
          THEN <<store[1]>> ELSE <<>>)
         \o CertsWithKey(Tail(store), kh)

\* Store::lookup_by_cert_or_subkey: Ok with the certificates that have a
\* key with the handle, Err(StoreError::NotFound) when there is none.
lookup_by_cert_or_subkey(store, kh) ==
    [ok |-> CertsWithKey(store, kh) # <<>>, certs |-> CertsWithKey(store, kh)]

\* certstore.update(cert): insert, or merge into the stored certificate.
StoreUpdate(store, c) ==
    IF \E i \in 1..Len(store) : store[i] = c THEN store ELSE Append(store, c)

(***************************************************************************)
(* The keystore (sequoia_keystore::Keystore).                              *)
(***************************************************************************)
\* softkeys.import(&cert): stores the secret key material of the
\* certificate; keys without secret material are ignored.
BackendImport(keys, c) == keys \cup (KeySet(c) \cap HasSecret)

\* keystore.find_key(handle): the stored keys with that fingerprint.
find_key(keys, kh) ==
    IF \E k \in keys : KeyFingerprint(k) = kh
    THEN <<CHOOSE k \in keys : KeyFingerprint(k) = kh>>
    ELSE <<>>

\* The password that protects the secret material of every protected key.
KeyPassword == <<"p", "w">>

\* key.unlock(password): the results the backend can give.  A locked key
\* is unlocked by its password and by nothing else; what the backend
\* answers for a key that needs no unlocking is left to the backend.
UnlockOutcomes(k, password, unlockedKeys) ==
    IF k \in Protected /\ k \notin unlockedKeys
    THEN {password = KeyPassword}
    ELSE BOOLEAN

\* Whether the keystore can sign with the key: its secret is in the clear.
Usable(k, unlockedKeys) == k \notin Protected \/ k \in unlockedKeys

(***************************************************************************)
(* Errors inside the library (anyhow::Error): a message, and whether the   *)
(* error value is a std::io::Error.                                        *)
(***************************************************************************)
AnyhowError(m) == [io |-> FALSE, msg |-> m]
IoError(m) == [io |-> TRUE, msg |-> m]
NoErr == [io |-> FALSE, msg |-> ""]

(***************************************************************************)
(* SequoiaMechanism::import_keys.  A blob is the sequence of records the   *)
(* certificate parser yields: a certificate, or "bad" for a malformed      *)
(* record.  fault = [at |-> step, i |-> record] names the external call    *)
(* that fails, if any.                                                     *)
(***************************************************************************)
BadRecord == "bad"
NoFault == [at |-> "none", i |-> 0]

\* Lines 88-91: a malformed record is logged and skipped.
OnMalformedRecord_Fatal(st) ==
    [st EXCEPT !.err = [io |-> FALSE, msg |-> "malformed certificate"]]

OnMalformedRecord(st) == st

\* The loop of lines 85-99 from record i on.  st holds the keystore, the
\* certificate store and the key handles collected so far.
RECURSIVE ImportLoop_StoreFirst(_, _, _, _)
ImportLoop_StoreFirst(blob, i, fault, st) ==
    IF i > Len(blob) THEN [st EXCEPT !.ok = TRUE]
    ELSE IF blob[i] = BadRecord
    THEN ImportLoop_StoreFirst(blob, i + 1, fault, st)
    ELSE IF fault = [at |-> "update", i |-> i]
    THEN [st EXCEPT !.err = AnyhowError("update failed")]
    ELSE LET updated == [st EXCEPT
                 !.certstore = StoreUpdate(st.certstore, blob[i]),
                 !.key_handles = Append(st.key_handles,
                                        to_hex(CertFingerprint(blob[i])))]
         IN IF fault = [at |-> "import", i |-> i]
            THEN [updated EXCEPT !.err = AnyhowError("import failed")]
            ELSE ImportLoop_StoreFirst(blob, i + 1, fault,
                     [updated EXCEPT
                        !.keystore = BackendImport(updated.keystore, blob[i])])

RECURSIVE ImportLoop(_, _, _, _)
ImportLoop(blob, i, fault, st) ==
    IF i > Len(blob) THEN [st EXCEPT !.ok = TRUE]
    ELSE IF blob[i] = BadRecord
    THEN LET skipped == OnMalformedRecord(st)
         IN IF skipped.err # NoErr THEN skipped
            ELSE ImportLoop(blob, i + 1, fault, skipped)
    ELSE IF fault = [at |-> "import", i |-> i]
    THEN [st EXCEPT !.err = AnyhowError("import failed")]
    ELSE LET imported == [st EXCEPT
                 !.keystore = BackendImport(st.keystore, blob[i]),
                 !.key_handles = Append(st.key_handles,
                                        to_hex(CertFingerprint(blob[i])))]
         IN IF fault = [at |-> "update", i |-> i]
            THEN [imported EXCEPT !.err = AnyhowError("update failed")]
            ELSE ImportLoop(blob, i + 1, fault,
                     [imported EXCEPT
                        !.certstore = StoreUpdate(imported.certstore, blob[i])])

import_keys_NoBackendCheck(keys, store, hasSoftkeys, blob, fault) ==
    LET st0 == [ok |-> FALSE, err |-> NoErr, key_handles |-> <<>>,
                keystore |-> keys, certstore |-> store, steps |-> <<>>]
    IN IF fault.at = "backends"
       THEN [st0 EXCEPT !.err = AnyhowError("cannot list backends"),
                        !.steps = <<"backends">>]
       ELSE IF fault.at = "backend_id"
       THEN [st0 EXCEPT !.err = AnyhowError("cannot identify backend"),
                        !.steps = <<"backends">>]
       ELSE IF fault.at = "parse_blob"
       THEN [st0 EXCEPT !.err = AnyhowError("cannot parse"),
                        !.steps = <<"backends", "parse">>]
       ELSE ImportLoop(blob, 1, fault,
                       [st0 EXCEPT !.steps = <<"backends", "parse">>])

import_keys_Atomic(keys, store, hasSoftkeys, blob, fault) ==
    LET st0 == [ok |-> FALSE, err |-> NoErr, key_handles |-> <<>>,
                keystore |-> keys, certstore |-> store, steps |-> <<>>]
        r == ImportLoop(blob, 1, fault,
                        [st0 EXCEPT !.steps = <<"backends", "parse">>])
    IN IF fault.at = "backends"
       THEN [st0 EXCEPT !.err = AnyhowError("cannot list backends"),
                        !.steps = <<"backends">>]
       ELSE IF fault.at = "backend_id"
       THEN [st0 EXCEPT !.err = AnyhowError("cannot identify backend"),
                        !.steps = <<"backends">>]
       ELSE IF ~hasSoftkeys
       THEN [st0 EXCEPT !.err = AnyhowError("softkeys backend is not configured."),
                        !.steps = <<"backends">>]
       ELSE IF fault.at = "parse_blob"
       THEN [st0 EXCEPT !.err = AnyhowError("cannot parse"),
                        !.steps = <<"backends", "parse">>]
       ELSE IF r.ok THEN r
       ELSE [r EXCEPT !.keystore = keys, !.certstore = store]

import_keys(keys, store, hasSoftkeys, blob, fault) ==
    LET st0 == [ok |-> FALSE, err |-> NoErr, key_handles |-> <<>>,
                keystore |-> keys, certstore |-> store, steps |-> <<>>]
    IN IF fault.at = "backends"
       THEN [st0 EXCEPT !.err = AnyhowError("cannot list backends"),
                        !.steps = <<"backends">>]
       ELSE IF fault.at = "backend_id"
       THEN [st0 EXCEPT !.err = AnyhowError("cannot identify backend"),
                        !.steps = <<"backends">>]
       ELSE IF ~hasSoftkeys
       THEN [st0 EXCEPT !.err = AnyhowError("softkeys backend is not configured."),
                        !.steps = <<"backends">>]
       ELSE IF fault.at = "parse_blob"
       THEN [st0 EXCEPT !.err = AnyhowError("cannot parse"),
                        !.steps = <<"backends", "parse">>]
       ELSE ImportLoop(blob, 1, fault,
                       [st0 EXCEPT !.steps = <<"backends", "parse">>])

(***************************************************************************)
(* SequoiaMechanism::sign.                                                 *)
(***************************************************************************)
\* cert.keys().with_policy(policy, None).for_signing(): the signing-capable
\* keys of a certificate that the policy accepts, in key order.  A
\* certificate whose primary key the policy rejects has no valid key.
RECURSIVE SigningKeysFrom_IgnoringPolicy(_, _, _)
SigningKeysFrom_IgnoringPolicy(p, c, i) ==
    IF i > Len(CertKeys(c)) THEN <<>>
    ELSE (IF CertKeys(c)[i] \in SigningCapable
          THEN <<KeyFingerprint(CertKeys(c)[i])>> ELSE <<>>)
         \o SigningKeysFrom_IgnoringPolicy(p, c, i + 1)

RECURSIVE SigningKeysFrom(_, _, _)
SigningKeysFrom(p, c, i) ==
    IF i > Len(CertKeys(c)) THEN <<>>
    ELSE (IF /\ PolicyAccepts(p, CertKeys(c)[1])
             /\ PolicyAccepts(p, CertKeys(c)[i])
             /\ CertKeys(c)[i] \in SigningCapable
          THEN <<KeyFingerprint(CertKeys(c)[i])>> ELSE <<>>)
         \o SigningKeysFrom(p, c, i + 1)

\* Lines 121-126: the signing key handles of every candidate, in order.
RECURSIVE SigningKeyHandles_LaterFirst(_, _)
SigningKeyHandles_LaterFirst(p, certs) ==
    IF certs = <<>> THEN <<>>
    ELSE SigningKeyHandles_LaterFirst(p, Tail(certs)) \o SigningKeysFrom(p, certs[1], 1)

RECURSIVE SigningKeyHandles(_, _)
SigningKeyHandles(p, certs) ==
    IF certs = <<>> THEN <<>>
    ELSE SigningKeysFrom(p, certs[1], 1) \o SigningKeyHandles(p, Tail(certs))

\* A signature packet: the issuing key and the bytes it signs.
SignedMessage_NoData(k, data) ==
    [wf |-> TRUE,
     layers |-> <<[t |-> "sigs", sigs |-> <<[issuer |-> k, over |-> <<>>]>>]>>,
     content |-> <<>>]

\* Lines 144-151: a one-layer message, one signature over the literal data.
SignedMessage(k, data) ==
    [wf |-> TRUE,
     layers |-> <<[t |-> "sigs", sigs |-> <<[issuer |-> k, over |-> data]>>]>>,
     content |-> data]

\* Line 141: the keys the keystore holds unlocked after key.unlock has
\* answered unlockOk for key k.
UnlockedAfter_Early(k, unlockOk, unlockedKeys) ==
    IF k \in Protected THEN unlockedKeys \cup {k} ELSE unlockedKeys

UnlockedAfter(k, unlockOk, unlockedKeys) ==
    IF unlockOk /\ k \in Protected THEN unlockedKeys \cup {k} ELSE unlockedKeys

\* The result of sign: ok, the serialized message, the keys now unlocked,
\* the error, and the steps the call went through.  unlockOk is the answer
\* of key.unlock, should the call get there.
SignResult(ok, out, unl, err, steps) ==
    [ok |-> ok, out |-> out, unlocked |-> unl, err |-> err, steps |-> steps]

sign(keys, unlockedKeys, store, p, key_handle, password, data, fault, unlockOk) ==
    LET kh == ParseKeyHandle(key_handle)
        fail(e, steps) == SignResult(FALSE, None, unlockedKeys, e, steps)
    IN
    IF IsNone(kh) THEN fail(AnyhowError("Malformed key handle"), <<"parse">>)
    ELSE IF fault.at = "lookup" \/ ~lookup_by_cert_or_subkey(store, Unwrap(kh)).ok
    THEN fail(AnyhowError("Failed to load key from certificate store"),
              <<"parse", "lookup">>)
    ELSE
    LET certs == lookup_by_cert_or_subkey(store, Unwrap(kh)).certs
        signing_key_handles == SigningKeyHandles(p, certs)
    IN
    IF signing_key_handles = <<>>
    THEN fail(AnyhowError("No matching signing key"),
              <<"parse", "lookup", "select">>)
    ELSE IF fault.at = "find_key"
    THEN fail(AnyhowError("keystore failure"),
              <<"parse", "lookup", "select", "find_key">>)
    ELSE
    LET found == find_key(keys, signing_key_handles[1]) IN
    IF found = <<>>
    THEN fail(AnyhowError("No matching key in keystore"),
              <<"parse", "lookup", "select", "find_key">>)
    ELSE
    LET k == found[1]
        before == <<"parse", "lookup", "select", "find_key">>
                  \o (IF IsSome(password) THEN <<"unlock">> ELSE <<>>)
        unl == IF IsSome(password)
               THEN UnlockedAfter(k, unlockOk, unlockedKeys) ELSE unlockedKeys
    IN
    IF IsSome(password) /\ ~unlockOk
    THEN SignResult(FALSE, None, unl, AnyhowError("unlock failed"), before)
    ELSE IF fault.at = "signer"
    THEN SignResult(FALSE, None, unl, AnyhowError("cannot build signer"),
                    Append(before, "serialize"))
    ELSE IF fault.at = "write"
    THEN SignResult(FALSE, None, unl, IoError("write failed"),
                    Append(before, "serialize"))
    ELSE IF ~Usable(k, unl)
    THEN SignResult(FALSE, None, unl, AnyhowError("key is locked"),
                    Append(before, "serialize"))
    ELSE SignResult(TRUE, Some(SignedMessage(k, data)), unl, NoErr,
                    Append(before, "serialize"))

\* The key sign hands to unlock, if the call gets that far: None otherwise.
SignUnlockKey(keys, store, p, key_handle, password, fault) ==
    LET kh == ParseKeyHandle(key_handle) IN
    IF IsNone(kh) \/ IsNone(password) \/ fault.at \in {"lookup", "find_key"}
    THEN None
    ELSE LET hs == SigningKeyHandles(p, CertsWithKey(store, Unwrap(kh)))
         IN IF hs = <<>> THEN None ELSE find_key(keys, hs[1])

(***************************************************************************)
(* The verification Helper.                                                *)
(***************************************************************************)
\* Helper::get_certs: the certificates the store resolves for the ids,
\* in the order of the ids; the `?` of line 194 returns the first error
\* of a lookup, and the certificates collected so far are dropped.
RECURSIVE get_certs(_, _)
get_certs(store, ids) ==
    IF ids = <<>> THEN [ok |-> TRUE, certs |-> <<>>]
    ELSE LET matches == lookup_by_cert_or_subkey(store, ids[1]) IN
         IF ~matches.ok THEN [ok |-> FALSE, certs |-> <<>>]
         ELSE LET rest == get_certs(store, Tail(ids)) IN
              IF ~rest.ok THEN rest
              ELSE [ok |-> TRUE, certs |-> matches.certs \o rest.certs]

\* The verifier's result for one signature: good when a resolved
\* certificate holds the issuing key, the key is valid for signing under
\* the policy and the signature is over the message's content; the
\* certificate of the result is the first resolved one holding the key.
NoCert == "none"
SigResult(sig, certs, p, content) ==
    LET holders == CertsWithKey(certs, KeyFingerprint(sig.issuer)) IN
    IF holders = <<>> THEN [ok |-> FALSE, cert |-> NoCert]
    ELSE [ok |-> /\ sig.over = content
                 /\ sig.issuer \in SigningCapable
                 /\ PolicyAccepts(p, CertKeys(holders[1])[1])
                 /\ PolicyAccepts(p, sig.issuer),
          cert |-> holders[1]]

\* results.iter().find(|r| r.is_ok()): the first good result, if any.
RECURSIVE FindOk_Last(_)
FindOk_Last(results) ==
    IF results = <<>> THEN None
    ELSE IF results[Len(results)].ok THEN Some(results[Len(results)])
    ELSE FindOk_Last(SubSeq(results, 1, Len(results) - 1))

RECURSIVE FindOk(_)
FindOk(results) ==
    IF results = <<>> THEN None
    ELSE IF results[1].ok THEN Some(results[1])
    ELSE FindOk(Tail(results))

RECURSIVE check_Lenient(_)
check_Lenient(structure) ==
    IF structure = <<>> THEN [ok |-> TRUE, signer |-> None, examined |-> 0]
    ELSE IF structure[1].t = "sigs" /\ IsSome(FindOk(structure[1].results))
    THEN [ok |-> TRUE, signer |-> Some(Unwrap(FindOk(structure[1].results)).cert),
          examined |-> 1]
    ELSE [check_Lenient(Tail(structure)) EXCEPT !.examined = @ + 1]

\* Helper::check over the layers of the message structure; a signature
\* group layer carries its results.  Returns ok, the signer it set and
\* the number of layers the loop of line 202 took from the structure.
RECURSIVE check(_)
check(structure) ==
    IF structure = <<>> THEN [ok |-> FALSE, signer |-> None, examined |-> 0]
    ELSE IF structure[1].t = "sigs" /\ IsSome(FindOk(structure[1].results))
    THEN [ok |-> TRUE, signer |-> Some(Unwrap(FindOk(structure[1].results)).cert),
          examined |-> 1]
    ELSE [check(Tail(structure)) EXCEPT !.examined = @ + 1]

(***************************************************************************)
(* SequoiaMechanism::verify.  The input is a byte buffer: empty, or the    *)
(* bytes of one message.  A message that the OpenPGP parser accepts (wf)   *)
(* has layers (compression, encryption, signature groups) and a content.   *)
(***************************************************************************)
Garbage == [wf |-> FALSE, layers |-> <<>>, content |-> <<>>]

\* The key handles the signatures of a message refer to, in order.
RECURSIVE Issuers(_)
Issuers(layers) ==
    IF layers = <<>> THEN <<>>
    ELSE [i \in 1..Len(layers[1].sigs) |-> KeyFingerprint(layers[1].sigs[i].issuer)]
         \o Issuers(Tail(layers))

\* The MessageStructure the verifier hands to Helper::check.
Structure(layers, certs, p, content) ==
    [i \in 1..Len(layers) |->
        [t |-> layers[i].t,
         results |-> [j \in 1..Len(layers[i].sigs) |->
                         SigResult(layers[i].sigs[j], certs, p, content)]]]

VerifyResult(ok, content, signer, err, steps) ==
    [ok |-> ok, content |-> content, signer |-> signer, err |-> err, steps |-> steps]

\* Lines 160-181: verify of a non-empty input.
VerifyNonEmpty(store, cfg, signature, fault) ==
    LET fail(e, steps) == VerifyResult(FALSE, <<>>, <<>>, e, steps) IN
    IF fault.at = "policy"
    THEN fail(AnyhowError("cannot parse policy configuration"),
              <<"helper", "policy">>)
    ELSE
    LET m == signature[1]
        policy == cfg
    IN
    IF ~m.wf THEN fail(AnyhowError("Malformed message"),
                       <<"helper", "policy", "parse">>)
    ELSE IF fault.at = "lookup" /\ Issuers(m.layers) # <<>>
    THEN fail(AnyhowError("certificate store failure"),
              <<"helper", "policy", "parse", "get_certs">>)
    ELSE
    LET resolved == get_certs(store, Issuers(m.layers)) IN
    IF ~resolved.ok
    THEN fail(AnyhowError("certificate not found"),
              <<"helper", "policy", "parse", "get_certs">>)
    ELSE
    LET certs == resolved.certs
        h == check(Structure(m.layers, certs, policy, m.content))
        steps == <<"helper", "policy", "parse", "get_certs", "check">>
    IN
    IF ~h.ok THEN fail(AnyhowError("No valid signature"), steps)
    ELSE IF IsSome(h.signer)
    THEN VerifyResult(TRUE, m.content, to_hex(CertFingerprint(Unwrap(h.signer))),
                      NoErr, Append(steps, "read"))
    ELSE fail(AnyhowError("No valid signature"), Append(steps, "read"))

verify_NoEmptyCheck(store, cfg, signature, fault) ==
    VerifyNonEmpty(store, cfg,
                   IF signature = <<>> THEN <<Garbage>> ELSE signature, fault)

verify(store, cfg, signature, fault) ==
    IF signature = <<>>
    THEN VerifyResult(FALSE, <<>>, <<>>, AnyhowError("empty signature"), <<>>)
    ELSE VerifyNonEmpty(store, cfg, signature, fault)

(***************************************************************************)
(* The error channel.                                                      *)
(***************************************************************************)
set_error_from_Silent(slot, err) == None

\* set_error_from: what the call writes into the caller's error slot; None
\* when the caller passed no slot.
set_error_from(slot, err) ==
    IF slot
    THEN Some([kind |-> IF err.io THEN "IoError" ELSE "Unknown",
               message |-> err.msg])
    ELSE None

(***************************************************************************)
(* Inputs of the entry points.                                             *)
(***************************************************************************)
Booleans == {TRUE, FALSE}
\* Key handle strings: the hex fingerprint of each certificate, a string
\* that is not hex, and a string that is not UTF-8.
MalformedHandle == <<"Z", "Z">>
NonUtf8 == <<InvalidByte>>
Handles == {to_hex(CertFingerprint(c)) : c \in AllCerts}
           \cup {MalformedHandle, NonUtf8}
WrongPassword == <<"n", "o">>
Passwords == {None, Some(KeyPassword), Some(WrongPassword), Some(NonUtf8)}
PayloadBytes == {7}
Payloads == UNION {[1..n -> PayloadBytes] : n \in 0..MaxData}
Blobs == UNION {[1..n -> AllCerts \cup {BadRecord}] : n \in 0..MaxBlob}

\* The external calls of import_keys that can fail on this blob.
ImportFaults(blob) ==
    {NoFault}
    \cup (IF blob = <<>> THEN {}
          ELSE {[at |-> a, i |-> 0] : a \in {"backends", "backend_id", "parse_blob"}})
    \cup {[at |-> a, i |-> i] : a \in {"import", "update"},
                                i \in {j \in 1..Len(blob) : blob[j] # BadRecord}}
SignFaults == {NoFault} \cup {[at |-> a, i |-> 0] :
                                 a \in {"lookup", "find_key", "signer", "write"}}
VerifyFaults == {NoFault} \cup {[at |-> a, i |-> 0] : a \in {"policy", "lookup"}}
\* from_directory, lines 36-47.
NewFaults == {NoFault} \cup {[at |-> a, i |-> 0] :
                 a \in {"context", "connect", "create_dir", "open", "policy"}}
\* ephemeral, lines 57-63.
EphemeralFaults == {NoFault} \cup {[at |-> a, i |-> 0] :
                       a \in {"context", "policy", "connect"}}

CompLayer == [t |-> "comp", sigs |-> <<>>]
EncLayer == [t |-> "enc", sigs |-> <<>>]
\* Well-formed messages without any signature group.
UnsignedMessages ==
    {[wf |-> TRUE, layers |-> ls, content |-> <<7>>] :
        ls \in UNION {[1..n -> {CompLayer, EncLayer}] : n \in 0..MaxLayers}}
\* Signed messages a third party may present: signed by a key with no
\* secret in any keystore, tampered with, or carrying two signatures of
\* which the first is over other bytes.
ForeignMessages ==
    {SignedMessage("kC1", <<7>>),
     [SignedMessage("kA1", <<7>>) EXCEPT !.content = <<>>],
     [wf |-> TRUE,
      layers |-> <<CompLayer,
                   [t |-> "sigs",
                    sigs |-> <<[issuer |-> "kB2", over |-> <<>>],
                               [issuer |-> "kA1", over |-> <<7>>]>>]>>,
      content |-> <<7>>]}
VerifyInputs == {<<>>, <<Garbage>>}
                \cup {<<m>> : m \in UnsignedMessages \cup ForeignMessages}

(***************************************************************************)
(* State.                                                                  *)
(***************************************************************************)
VARIABLES
    mech,       \* the caller's SequoiaMechanism handle: "null", or the kind
                \* of mechanism it points to, "dir" or "eph"
    home,       \* whether the stores are those of a directory that a
                \* mechanism was opened on and that may be opened again
    softkeys,   \* whether the keystore context has a "softkeys" backend
    keystore,   \* keys whose secret material the keystore holds
    unlocked,   \* protected keys the keystore has unlocked
    certstore,  \* certificates of the certificate store, in store order
    policy,     \* the policy the mechanism loaded when it was constructed
    config,     \* the policy configuration on disk
    call        \* the last call over the boundary: arguments and outcome

vars == <<mech, home, softkeys, keystore, unlocked, certstore, policy, config, call>>

\* A call record.  pre holds the stores as the call found them, ret is the returned pointer (None: null), err what the
\* call wrote into the error slot (None: nothing), obj the result object
\* an accessor was applied to, chained whether a verify was given the
\* bytes the preceding sign returned (handle, password and data are then
\* those of that sign).
NoCall ==
    [op |-> "none", slot |-> FALSE, handle |-> <<>>, password |-> None,
     data |-> <<>>, blob |-> <<>>, msg |-> <<>>, index |-> 0,
     fault |-> NoFault, chained |-> FALSE, retry |-> FALSE, dir |-> "none",
     ret |-> None, err |-> None, steps |-> <<>>, obj |-> None,
     pre |-> [keystore |-> {}, unlocked |-> {}, certstore |-> <<>>]]

\* The stores as a call finds them, kept in its record (pre).
Stores == [keystore |-> keystore, unlocked |-> unlocked, certstore |-> certstore]

Init ==
    /\ mech = "null"
    /\ home = FALSE
    /\ softkeys = TRUE
    /\ keystore = {}
    /\ unlocked = {}
    /\ certstore = <<>>
    /\ policy = "default"
    /\ config \in Policies
    /\ call = NoCall

MechanismHandle == "mechanism"

\* The caller holds nothing from an earlier call: every object a call
\* returned is freed before the next call is made, except where the next
\* call is applied to that object.
Idle == call = NoCall

(***************************************************************************)
(* Constructors and destructor.                                            *)
(***************************************************************************)
\* The directories from_directory can be given: the one the last
\* directory mechanism was opened on (when the model still follows one),
\* or one no mechanism has been opened on.
Directories == (IF home THEN {"same"} ELSE {}) \cup {"fresh"}

\* Lines 36-43: the keystore home data/keystore and the certificate
\* directory data/pgp.cert.d are opened as they are found: with what the
\* earlier mechanism on that directory left there, or empty in a
\* directory not used before.  A keystore opened anew has every protected
\* key locked.
OpenDirectory(dir, sk) ==
    IF dir = "same"
    THEN [softkeys |-> softkeys, keystore |-> keystore, certstore |-> certstore]
    ELSE [softkeys |-> sk, keystore |-> {}, certstore |-> <<>>]

\* Lines 57-58, 63: an ephemeral keystore context and CertStore::empty().
OpenEphemeral(sk) == [softkeys |-> sk, keystore |-> {}, certstore |-> <<>>]

\* What a failing step of a constructor returns: the io::Error of
\* create_dir_all, or the library's error.
NewError(fault) ==
    IF fault.at = "create_dir"
    THEN IoError("cannot create directory")
    ELSE AnyhowError("cannot construct mechanism")

\* SequoiaMechanism::from_directory / ::ephemeral behind their entry
\* points: opened is the stores the new mechanism has, kind what it is
\* ("dir" or "eph"), dir the directory argument.
NewMechanism(op, kind, dir, faults, opened) ==
    /\ mech = "null"
    /\ Idle
    /\ \E slot \in Booleans, fault \in faults :
         IF fault = NoFault
         THEN /\ mech' = kind
              /\ home' = (kind = "dir")
              /\ softkeys' = opened.softkeys
              /\ keystore' = opened.keystore
              /\ unlocked' = {}
              /\ certstore' = opened.certstore
              /\ policy' = config
              /\ call' = [NoCall EXCEPT !.op = op, !.slot = slot, !.dir = dir,
                                        !.ret = Some(MechanismHandle)]
         ELSE /\ call' = [NoCall EXCEPT
                    !.op = op, !.slot = slot, !.dir = dir, !.fault = fault,
                    !.err = set_error_from(slot, NewError(fault))]
              /\ UNCHANGED <<mech, home, softkeys, keystore, unlocked,
                             certstore, policy>>
    /\ UNCHANGED config

sequoia_mechanism_new_from_directory ==
    \E dir \in Directories, sk \in Booleans :
       /\ dir = "same" => sk
       /\ NewMechanism("new_from_directory", "dir", dir, NewFaults,
                       OpenDirectory(dir, sk))

\* An ephemeral mechanism has no directory; the model stops following
\* the directory of the mechanisms before it.
sequoia_mechanism_new_ephemeral ==
    \E sk \in Booleans :
       NewMechanism("new_ephemeral", "eph", "none", EphemeralFaults,
                    OpenEphemeral(sk))

\* Lines 271-274: the mechanism is dropped.  What a directory mechanism
\* wrote stays in its directory; an ephemeral mechanism leaves nothing.
sequoia_mechanism_free ==
    /\ mech # "null"
    /\ Idle
    /\ mech' = "null"
    /\ IF mech = "dir"
       THEN UNCHANGED <<softkeys, keystore, certstore>>
       ELSE /\ softkeys' = TRUE
            /\ keystore' = {}
            /\ certstore' = <<>>
    /\ unlocked' = {}
    /\ policy' = "default"
    /\ call' = [NoCall EXCEPT !.op = "free"]
    /\ UNCHANGED <<config, home>>

\* The policy configuration is edited on disk, between two calls: calls
\* run to completion on the calling thread.  (An edit while the caller
\* still holds the result of a failed call, or of an accessor, is the
\* same edit made after the caller has released it.)
EditPolicyConfig ==
    /\ Idle \/ (call.op = "sign" /\ IsSome(call.ret))
    /\ config' \in Policies \ {config}
    /\ UNCHANGED <<mech, home, softkeys, keystore, unlocked, certstore, policy, call>>

(***************************************************************************)
(* sequoia_import_keys.                                                    *)
(***************************************************************************)
\* Lines 418-432: what sequoia_import_keys gets from the mechanism; an
\* empty blob never reaches it.
ImportKeysFfi_NoShortCircuit(keys, store, hasSoftkeys, blob, fault) ==
    import_keys(keys, store, hasSoftkeys, blob, fault)

ImportKeysFfi(keys, store, hasSoftkeys, blob, fault) ==
    IF blob = <<>>
    THEN [ok |-> TRUE, err |-> NoErr, key_handles |-> <<>>,
          keystore |-> keys, certstore |-> store, steps |-> <<>>]
    ELSE import_keys(keys, store, hasSoftkeys, blob, fault)

sequoia_import_keys ==
    /\ mech # "null"
    /\ Idle
    /\ \E slot \in Booleans, blob \in Blobs :
       \E fault \in ImportFaults(blob) :
         LET c0 == [NoCall EXCEPT !.op = "import_keys", !.slot = slot,
                                  !.blob = blob, !.fault = fault,
                                  !.pre = Stores]
             r == ImportKeysFfi(keystore, certstore, softkeys, blob, fault)
         IN /\ keystore' = r.keystore
            /\ certstore' = r.certstore
            /\ call' = IF r.ok
                       THEN [c0 EXCEPT !.ret = Some(r.key_handles),
                                       !.obj = Some(r.key_handles),
                                       !.steps = r.steps]
                       ELSE [c0 EXCEPT !.err = set_error_from(slot, r.err),
                                       !.steps = r.steps]
    /\ UNCHANGED <<mech, home, softkeys, unlocked, policy, config>>

(***************************************************************************)
(* sequoia_import_result_get_count / _get_content, applied to the import   *)
(* result the caller holds.                                                *)
(***************************************************************************)
HoldsImportResult ==
    /\ call.op \in {"import_keys", "import_result_get_count",
                    "import_result_get_content"}
    /\ IsSome(call.obj)

sequoia_import_result_get_count ==
    /\ HoldsImportResult
    /\ call' = [NoCall EXCEPT !.op = "import_result_get_count",
                              !.obj = call.obj,
                              !.ret = Some(Len(Unwrap(call.obj)))]
    /\ UNCHANGED <<mech, home, softkeys, keystore, unlocked, certstore, policy, config>>

\* The value sequoia_import_result_get_content returns for an index, and
\* the error it hands to set_error_from.
import_result_get_content_OffByOne(key_handles, index) ==
    IF index > Len(key_handles)
    THEN [ret |-> None, err |-> Some(AnyhowError("No matching key handle"))]
    ELSE [ret |-> Some(IF index < Len(key_handles)
                       THEN key_handles[index + 1] ELSE <<>>),
          err |-> None]

import_result_get_content(key_handles, index) ==
    IF index >= Len(key_handles)
    THEN [ret |-> None, err |-> Some(AnyhowError("No matching key handle"))]
    ELSE [ret |-> Some(key_handles[index + 1]), err |-> None]

sequoia_import_result_get_content ==
    /\ HoldsImportResult
    /\ \E slot \in Booleans, index \in 0..(MaxBlob + 1) :
         LET r == import_result_get_content(Unwrap(call.obj), index) IN
         call' = [NoCall EXCEPT
                    !.op = "import_result_get_content", !.slot = slot,
                    !.index = index, !.obj = call.obj, !.ret = r.ret,
                    !.err = IF IsSome(r.err)
                            THEN set_error_from(slot, Unwrap(r.err)) ELSE None]
    /\ UNCHANGED <<mech, home, softkeys, keystore, unlocked, certstore, policy, config>>

(***************************************************************************)
(* sequoia_sign.                                                           *)
(***************************************************************************)
\* Whether the last call was a sign that failed in key.unlock.
FailedAtUnlock(c) ==
    /\ c.op = "sign"
    /\ IsNone(c.ret)
    /\ c.steps # <<>>
    /\ c.steps[Len(c.steps)] = "unlock"

\* One call of sequoia_sign; retry tells that it repeats, with the same
\* key handle and data, a sign that has just failed in key.unlock.
SignCall(slot, key_handle, password, data, fault, retry) ==
    LET c0 == [NoCall EXCEPT
                 !.op = "sign", !.slot = slot, !.handle = key_handle,
                 !.password = password, !.data = data, !.fault = fault,
                 !.retry = retry, !.pre = Stores]
    IN
    IF IsNone(to_str(key_handle))
       \/ (IsSome(password) /\ IsNone(to_str(Unwrap(password))))
    THEN /\ fault = NoFault
         /\ call' = [c0 EXCEPT
               !.err = set_error_from(slot, AnyhowError("invalid utf-8"))]
         /\ UNCHANGED unlocked
    ELSE
    LET k == SignUnlockKey(keystore, certstore, policy, key_handle,
                           password, fault)
    IN \E unlockOk \in (IF IsSome(k)
                        THEN UnlockOutcomes(Unwrap(k), Unwrap(password), unlocked)
                        ELSE {TRUE}) :
         LET r == sign(keystore, unlocked, certstore, policy, key_handle,
                       password, data, fault, unlockOk)
         IN /\ unlocked' = r.unlocked
            /\ call' = IF r.ok
                       THEN [c0 EXCEPT !.ret = r.out, !.steps = r.steps]
                       ELSE [c0 EXCEPT !.err = set_error_from(slot, r.err),
                                       !.steps = r.steps]

sequoia_sign ==
    /\ mech # "null"
    /\ \E slot \in Booleans, password \in Passwords, fault \in SignFaults :
         \/ /\ Idle
            /\ \E key_handle \in Handles, data \in Payloads :
                 SignCall(slot, key_handle, password, data, fault, FALSE)
         \/ /\ FailedAtUnlock(call)
            /\ SignCall(slot, call.handle, password, call.data, fault, TRUE)
    /\ UNCHANGED <<mech, home, softkeys, keystore, certstore, policy, config>>

(***************************************************************************)
(* sequoia_verify: of bytes the caller got from elsewhere, or of the bytes *)
(* the preceding sequoia_sign returned.                                    *)
(***************************************************************************)
\* Lines 155-181 write to neither store.
VerifyLeavesStores_Evicting ==
    /\ UNCHANGED <<keystore, unlocked>>
    /\ certstore' = IF IsNone(call'.ret) THEN <<>> ELSE certstore

VerifyLeavesStores == UNCHANGED <<keystore, unlocked, certstore>>

VerifyCall_CachedPolicy(c0, signature, fault) ==
    LET r == verify(certstore, policy, signature, fault) IN
    call' = IF r.ok
            THEN [c0 EXCEPT !.ret = Some([content |-> r.content, signer |-> r.signer]),
                            !.steps = r.steps]
            ELSE [c0 EXCEPT !.err = set_error_from(c0.slot, r.err),
                            !.steps = r.steps]

VerifyCall(c0, signature, fault) ==
    LET r == verify(certstore, config, signature, fault) IN
    call' = IF r.ok
            THEN [c0 EXCEPT !.ret = Some([content |-> r.content, signer |-> r.signer]),
                            !.steps = r.steps]
            ELSE [c0 EXCEPT !.err = set_error_from(c0.slot, r.err),
                            !.steps = r.steps]

sequoia_verify ==
    /\ mech # "null"
    /\ \E slot \in Booleans, fault \in VerifyFaults :
         \/ /\ Idle
            /\ \E signature \in VerifyInputs :
              VerifyCall([NoCall EXCEPT !.op = "verify", !.slot = slot,
                                        !.msg = signature, !.fault = fault,
                                        !.pre = Stores],
                         signature, fault)
         \/ /\ call.op = "sign"
            /\ IsSome(call.ret)
            /\ VerifyCall([NoCall EXCEPT !.op = "verify", !.slot = slot,
                                         !.msg = call.ret, !.fault = fault,
                                         !.chained = TRUE, !.pre = Stores,
                                         !.handle = call.handle,
                                         !.password = call.password,
                                         !.data = call.data],
                          call.ret, fault)
    /\ VerifyLeavesStores
    /\ UNCHANGED <<mech, home, softkeys, policy, config>>

(***************************************************************************)
(* The caller frees what the last call handed out (the result object with  *)
(* its free function, the error with sequoia_error_free) and is ready for  *)
(* an unrelated call.                                                      *)
(***************************************************************************)
ReleaseResult ==
    /\ ~Idle
    /\ call' = NoCall
    /\ UNCHANGED <<mech, home, softkeys, keystore, unlocked, certstore, policy, config>>

Next ==
    \/ sequoia_mechanism_new_from_directory
    \/ sequoia_mechanism_new_ephemeral
    \/ sequoia_mechanism_free
    \/ EditPolicyConfig
    \/ sequoia_import_keys
    \/ sequoia_import_result_get_count
    \/ sequoia_import_result_get_content
    \/ sequoia_sign
    \/ sequoia_verify
    \/ ReleaseResult

Spec == Init /\ [][Next]_vars

(***************************************************************************)
(* Helper::check on its own: the verifier may hand it any message          *)
(* structure, so it is applied here to every list of layers within the     *)
(* bounds.  The call record holds the structure (msg) and what check       *)
(* returned (ret).                                                         *)
(***************************************************************************)
\* The result of one signature: good, with the certificate of the key
\* that made it, or bad.
Results == {[ok |-> TRUE, cert |-> c] : c \in {"cA", "cB"}}
           \cup {[ok |-> FALSE, cert |-> NoCert]}
Layers == {[t |-> "comp", results |-> <<>>], [t |-> "enc", results |-> <<>>]}
          \cup {[t |-> "sigs", results |-> rs] :
                   rs \in UNION {[1..n -> Results] : n \in 0..MaxResults}}
Structures == UNION {[1..n -> Layers] : n \in 0..MaxLayers}

HelperCheck ==
    /\ Idle
    /\ \E structure \in Structures :
         call' = [NoCall EXCEPT !.op = "check", !.msg = structure,
                                !.ret = Some(check(structure))]
    /\ UNCHANGED <<mech, home, softkeys, keystore, unlocked, certstore, policy, config>>

NextCheck ==
    \/ HelperCheck
    \/ ReleaseResult

SpecCheck == Init /\ [][NextCheck]_vars

(***************************************************************************)
(* The Helper through one verify call, layer by layer: verify makes the    *)
(* Helper (lines 160-163), the verifier calls Helper::check once, with the *)
(* structure of the message, and verify reads helper.signer (lines         *)
(* 174-180).  The call record holds the structure (msg), helper.signer     *)
(* (obj), the number of layers check has taken (index) and the events so   *)
(* far (steps): "helper", then "layer" for a layer that set nothing, then  *)
(* "set" (signer set, check returns Ok) or "err" (check returns Err), then *)
(* "done" when verify has returned (ret, err).                             *)
(***************************************************************************)
LastStep(c) == IF c.steps = <<>> THEN "" ELSE c.steps[Len(c.steps)]

\* Whether check has returned: right after it set the signer (line 219),
\* or with the error of line 224.
Returned_OnlyAtEnd(c) == LastStep(c) \in {"err", "done"}

Returned(c) == LastStep(c) \in {"set", "err", "done"}

\* Lines 160-163: a new Helper, signer: Default::default().
HelperNew ==
    /\ Idle
    /\ \E structure \in Structures :
         call' = [NoCall EXCEPT !.op = "helper", !.slot = TRUE,
                                !.msg = structure, !.obj = None,
                                !.steps = <<"helper">>]
    /\ UNCHANGED <<mech, home, softkeys, keystore, unlocked, certstore, policy, config>>

\* One turn of the loop of line 202.
CheckLayer ==
    /\ call.op = "helper"
    /\ ~Returned(call)
    /\ call.index < Len(call.msg)
    /\ LET layer == call.msg[call.index + 1]
           result == IF layer.t = "sigs" THEN FindOk(layer.results) ELSE None
       IN call' = IF IsSome(result)
                  THEN [call EXCEPT !.index = @ + 1,
                                    !.obj = Some(Unwrap(result).cert),
                                    !.steps = Append(@, "set")]
                  ELSE [call EXCEPT !.index = @ + 1,
                                    !.steps = Append(@, "layer")]
    /\ UNCHANGED <<mech, home, softkeys, keystore, unlocked, certstore, policy, config>>

\* Line 224: the loop is over and nothing has returned.
CheckFails ==
    /\ call.op = "helper"
    /\ ~Returned(call)
    /\ call.index = Len(call.msg)
    /\ call' = [call EXCEPT !.steps = Append(@, "err")]
    /\ UNCHANGED <<mech, home, softkeys, keystore, unlocked, certstore, policy, config>>

\* Lines 170-180: the error of check comes back from read_to_end and
\* leaves verify through `?`; otherwise verify matches on helper.signer.
VerifyFinish ==
    /\ call.op = "helper"
    /\ LastStep(call) \in {"set", "err"}
    /\ call' = IF LastStep(call) = "set" /\ IsSome(call.obj)
               THEN [call EXCEPT
                       !.ret = Some([content |-> <<7>>,
                                     signer |-> to_hex(CertFingerprint(Unwrap(call.obj)))]),
                       !.steps = Append(@, "done")]
               ELSE [call EXCEPT
                       !.err = set_error_from(call.slot,
                                              AnyhowError("No valid signature")),
                       !.steps = Append(@, "done")]
    /\ UNCHANGED <<mech, home, softkeys, keystore, unlocked, certstore, policy, config>>

NextHelper ==
    \/ HelperNew
    \/ CheckLayer
    \/ CheckFails
    \/ VerifyFinish
    \/ ReleaseResult

SpecHelper == Init /\ [][NextHelper]_vars

(***************************************************************************)
(* Properties.                                                             *)
(***************************************************************************)
\* Whether the certificate is in the certificate store.
Stored(c) == \E i \in 1..Len(certstore) : certstore[i] = c

\* The fingerprints sign collects for a handle; it uses the first.
Selection(kh) == SigningKeyHandles(policy, CertsWithKey(certstore, kh))

\* The password fits the key: given exactly when the key is still locked,
\* and then the key's own.
PasswordFits(k, password, unlockedKeys) ==
    IF k \in Protected /\ k \notin unlockedKeys
    THEN password = Some(KeyPassword)
    ELSE password = None

\* The key that issued the one signature of a message made by sign.
IssuerOf(signature) == signature[1].layers[1].sigs[1].issuer

\* C1 as stated: once import_keys has stored certificate c, a sign without
\* any failing external call, for the fingerprint of c and with the password
\* of c's keys, succeeds, and verify of the bytes it returned gives back
\* the payload as content and the fingerprint of c as signer.
C1_RoundTripAnyCert ==
    \A c \in AllCerts :
       (/\ Stored(c)
        /\ call.handle = to_hex(CertFingerprint(c))
        /\ call.fault = NoFault
        /\ call.pre.unlocked = {}
        /\ call.password = (IF KeySet(c) \cap Protected # {}
                            THEN Some(KeyPassword) ELSE None))
       => /\ call.op = "sign" => IsSome(call.ret)
          /\ (call.op = "verify" /\ call.chained) =>
                /\ IsSome(call.ret)
                /\ Unwrap(call.ret).content = call.data
                /\ Unwrap(call.ret).signer = call.handle

\* C1, amended: for a stored certificate c and calls in which no external
\* call fails, (a) sign for the fingerprint of c succeeds and returns a
\* message whose content is the payload when the first fingerprint of the
\* selection is a key of c held by the keystore and the password fits that
\* key; (b) verify of the bytes such a sign returned gives the payload as
\* content and the fingerprint of c as signer when c is the first stored
\* certificate holding the issuing key and the configured policy accepts
\* that key and the primary key of c.
C1_RoundTrip ==
    \A c \in AllCerts :
       (/\ Stored(c)
        /\ call.handle = to_hex(CertFingerprint(c))
        /\ call.fault = NoFault)
       => /\ (/\ call.op = "sign"
              /\ Selection(CertFingerprint(c)) # <<>>
              /\ \E k \in KeySet(c) \cap keystore :
                    /\ KeyFingerprint(k) = Selection(CertFingerprint(c))[1]
                    /\ PasswordFits(k, call.password, call.pre.unlocked))
             => /\ IsSome(call.ret)
                /\ IsNone(call.err)
                /\ Unwrap(call.ret).content = call.data
                /\ IssuerOf(call.ret) \in KeySet(c)
          /\ (/\ call.op = "verify"
              /\ call.chained
              /\ IssuerOf(call.msg) \in KeySet(c)
              /\ CertsWithKey(
                    certstore, KeyFingerprint(IssuerOf(call.msg)))[1] = c
              /\ PolicyAccepts(config, CertKeys(c)[1])
              /\ PolicyAccepts(config, IssuerOf(call.msg)))
             => /\ IsSome(call.ret)
                /\ IsNone(call.err)
                /\ Unwrap(call.ret).content = call.data
                /\ Unwrap(call.ret).signer = call.handle

\* A verify of bytes signed with the protected key of cB, unlocked by its
\* password, has returned the payload and the fingerprint of cB.
C1_Witness ==
    /\ call.op = "verify"
    /\ call.chained
    /\ call.handle = to_hex(CertFingerprint("cB"))
    /\ call.password = Some(KeyPassword)
    /\ call.data = <<7>>
    /\ IsSome(call.ret)
    /\ Unwrap(call.ret).content = <<7>>
    /\ Unwrap(call.ret).signer = to_hex(CertFingerprint("cB"))

\* C2: import_keys with an empty blob returns an import result with no
\* key handle and writes no error, goes through no step of the mechanism
\* (no backend enumeration, no import, no store update) and leaves the
\* keystore, its unlocked keys and the certificate store as they were,
\* with or without a "softkeys" backend.
C2_EmptyImport ==
    (call.op = "import_keys" /\ call.blob = <<>>)
    => /\ IsSome(call.ret)
       /\ Len(Unwrap(call.ret)) = 0
       /\ IsNone(call.err)
       /\ call.steps = <<>>
       /\ Stores = call.pre

\* An empty import has succeeded on a mechanism without softkeys backend.
C2_Witness ==
    /\ call.op = "import_keys"
    /\ call.blob = <<>>
    /\ ~softkeys
    /\ IsSome(call.ret)

\* An empty import has succeeded on a mechanism that holds certificates.
C2_WitnessStored ==
    /\ call.op = "import_keys"
    /\ call.blob = <<>>
    /\ certstore # <<>>
    /\ IsSome(call.ret)

\* C3: verify with an empty input returns null and, given an error slot,
\* the error "empty signature", whatever the certificate store holds and
\* whichever external call would fail; it goes through no step: no helper
\* is built, no policy loaded, no certificate looked up.
C3_EmptyVerify ==
    (call.op = "verify" /\ call.msg = <<>>)
    => /\ IsNone(call.ret)
       /\ call.steps = <<>>
       /\ call.slot => /\ IsSome(call.err)
                       /\ Unwrap(call.err).message = "empty signature"
       /\ ~call.slot => IsNone(call.err)

\* An empty verify has failed on a mechanism that holds certificates, in
\* a call whose policy reload would have failed.
C3_Witness ==
    /\ call.op = "verify"
    /\ call.msg = <<>>
    /\ certstore # <<>>
    /\ call.fault.at = "policy"
    /\ IsSome(call.err)
    /\ IsNone(call.ret)

\* The key handles import_keys is to report for a blob: the hex
\* fingerprint of each well-formed record, in parse order.
RECURSIVE WellFormedHandles(_)
WellFormedHandles(blob) ==
    IF blob = <<>> THEN <<>>
    ELSE (IF blob[1] \in AllCerts
          THEN <<to_hex(CertFingerprint(blob[1]))>> ELSE <<>>)
         \o WellFormedHandles(Tail(blob))

\* C4: on a mechanism with a softkeys backend and with no external call
\* failing, import_keys of a non-empty blob succeeds and reports exactly the
\* hex fingerprints of the well-formed records, one per record, in parse
\* order; malformed records are skipped, wherever they stand.
C4_SkipsMalformed ==
    (/\ call.op = "import_keys"
     /\ call.blob # <<>>
     /\ call.fault = NoFault
     /\ softkeys)
    => /\ IsSome(call.ret)
       /\ IsNone(call.err)
       /\ Unwrap(call.ret) = WellFormedHandles(call.blob)
       /\ \A i \in 1..Len(call.blob) :
             call.blob[i] \in AllCerts =>
                /\ Stored(call.blob[i])
                /\ KeySet(call.blob[i]) \cap HasSecret \subseteq keystore

\* A well-formed record followed by a malformed one gave count 1.
C4_Witness ==
    /\ call.op = "import_keys"
    /\ call.blob = <<"cA", BadRecord>>
    /\ IsSome(call.ret)
    /\ Len(Unwrap(call.ret)) = 1
    /\ Stored("cA")

\* Whether a verify input is a well-formed message without signature group.
Unsigned(signature) ==
    /\ signature # <<>>
    /\ signature[1].wf
    /\ \A i \in 1..Len(signature[1].layers) : signature[1].layers[i].t # "sigs"

\* C5: verify of a well-formed message without signature group never
\* returns a result, whatever the certificate store holds; unless the
\* policy reload fails first, it is the helper's structure check that
\* rejects it, with "No valid signature".
C5_UnsignedRejected ==
    (call.op = "verify" /\ Unsigned(call.msg))
    => /\ IsNone(call.ret)
       /\ call.fault.at # "policy" =>
            /\ call.steps = <<"helper", "policy", "parse", "get_certs", "check">>
            /\ call.slot => /\ IsSome(call.err)
                            /\ Unwrap(call.err).message = "No valid signature"

\* A compressed, encrypted message without signature has been rejected by
\* a mechanism that holds certificates.
C5_Witness ==
    /\ call.op = "verify"
    /\ Unsigned(call.msg)
    /\ Len(call.msg[1].layers) = 2
    /\ certstore # <<>>
    /\ IsSome(call.err)
    /\ Unwrap(call.err).message = "No valid signature"

\* The key sign finds in the keystore for a key handle string: the key
\* with the first fingerprint of the selection; None if it gets to none.
KeyFor(key_handle) ==
    IF IsNone(ParseKeyHandle(key_handle)) THEN None
    ELSE IF Selection(Unwrap(ParseKeyHandle(key_handle))) = <<>> THEN None
    ELSE find_key(keystore, Selection(Unwrap(ParseKeyHandle(key_handle)))[1])

\* The number of times a step occurs among the steps of a call.
RECURSIVE Count(_, _)
Count(steps, x) ==
    IF steps = <<>> THEN 0
    ELSE (IF steps[1] = x THEN 1 ELSE 0) + Count(Tail(steps), x)

\* C6: a sign with a wrong password for a key that is still locked fails
\* in key.unlock, which it has called once; it returns no bytes, does not
\* get to the serialization and leaves the keystore, locked keys included,
\* as it was.  The sign that follows it with the same key handle and data
\* and the password of the key succeeds, unless an external call fails.
C6_UnlockFailureIsolated ==
    \A k \in Protected :
       (/\ call.op = "sign"
        /\ KeyFor(call.handle) = Some(k)
        /\ k \notin call.pre.unlocked
        /\ call.fault.at \notin {"lookup", "find_key"})
       => /\ call.password = Some(WrongPassword) =>
               /\ IsNone(call.ret)
               /\ call.steps = <<"parse", "lookup", "select", "find_key", "unlock">>
               /\ Count(call.steps, "unlock") = 1
               /\ call.slot => /\ IsSome(call.err)
                               /\ Unwrap(call.err).message = "unlock failed"
               /\ Stores = call.pre
          /\ (/\ call.retry
              /\ call.password = Some(KeyPassword)
              /\ call.fault = NoFault)
             => /\ IsSome(call.ret)
                /\ Unwrap(call.ret).content = call.data
                /\ Count(call.steps, "unlock") = 1
                /\ k \in unlocked

\* A sign with the right password has succeeded right after a sign with
\* the same key handle and data had failed in key.unlock, on a key that
\* was locked.
C6_Witness ==
    /\ call.op = "sign"
    /\ call.retry
    /\ call.handle = to_hex(CertFingerprint("cB"))
    /\ call.password = Some(KeyPassword)
    /\ "kB2" \notin call.pre.unlocked
    /\ IsSome(call.ret)

\* C7: for an import result of n key handles, get_count returns n;
\* get_content returns the handle at index i and writes no error for
\* i < n, and returns null with the error "No matching key handle" for
\* every i >= n; no accessor changes the result object.
C7_IndexBounds ==
    /\ [](/\ call.op = "import_result_get_count" =>
               call.ret = Some(Len(Unwrap(call.obj)))
          /\ call.op = "import_result_get_content" =>
               IF call.index < Len(Unwrap(call.obj))
               THEN /\ call.ret = Some(Unwrap(call.obj)[call.index + 1])
                    /\ Len(Unwrap(call.ret)) > 0
                    /\ IsNone(call.err)
               ELSE /\ IsNone(call.ret)
                    /\ call.slot => /\ IsSome(call.err)
                                    /\ Unwrap(call.err).message
                                          = "No matching key handle"
                    /\ ~call.slot => IsNone(call.err))
    /\ [][call'.op \in {"import_result_get_count", "import_result_get_content"}
          => call'.obj = call.obj]_vars

\* get_content has failed at the index equal to the count of a result
\* that holds two key handles.
C7_Witness ==
    /\ call.op = "import_result_get_content"
    /\ Len(Unwrap(call.obj)) = 2
    /\ call.index = 2
    /\ IsNone(call.ret)
    /\ IsSome(call.err)

\* get_content has returned the last key handle of a result of two.
C7_WitnessLast ==
    /\ call.op = "import_result_get_content"
    /\ Len(Unwrap(call.obj)) = 2
    /\ call.index = 1
    /\ call.ret = Some(to_hex(CertFingerprint("cB")))

\* A failure the caller can fix: a sign whose key handle or password is
\* not UTF-8 or whose key handle is not a fingerprint or key id, or a
\* get_content whose index is out of range.
CallerFixable ==
    \/ /\ call.op = "sign"
       /\ \/ IsNone(to_str(call.handle))
          \/ (IsSome(call.password) /\ IsNone(to_str(Unwrap(call.password))))
          \/ IsNone(ParseKeyHandle(call.handle))
    \/ /\ call.op = "import_result_get_content"
       /\ call.index >= Len(Unwrap(call.obj))

\* C8: a call that fails for a malformed key handle, a string that is not
\* UTF-8 or an index out of range writes an error of kind InvalidArgument
\* into the error slot it was given.
C8_InvalidArgumentKind ==
    (CallerFixable /\ call.slot)
    => /\ IsSome(call.err)
       /\ Unwrap(call.err).kind = "InvalidArgument"

\* C8, as the code behaves: each such call writes an error of kind
\* Unknown, the kind it writes for a key that is not found as well.
C8_KindIsUnknown ==
    /\ (CallerFixable /\ call.slot)
       => /\ IsNone(call.ret)
          /\ IsSome(call.err)
          /\ Unwrap(call.err).kind = "Unknown"
    /\ IsSome(call.err) => Unwrap(call.err).kind \in {"Unknown", "IoError"}

\* A sign with a malformed key handle has written its error.
C8_Witness ==
    /\ call.op = "sign"
    /\ call.handle = MalformedHandle
    /\ call.slot
    /\ IsSome(call.err)
    /\ Unwrap(call.err).message = "Malformed key handle"

\* The entry points that can fail.
Fallible ==
    {"new_from_directory", "new_ephemeral", "import_keys", "sign", "verify",
     "import_result_get_content"}

\* C9: a call of a fallible entry point either returns a non-null pointer
\* and writes no error, or returns null and writes an error exactly when
\* it was given an error slot; a call that returns null has made no
\* result object: no import result and no mechanism.
C9_HandleXorError ==
    call.op \in Fallible =>
       \/ /\ IsSome(call.ret)
          /\ IsNone(call.err)
       \/ /\ IsNone(call.ret)
          /\ (call.slot <=> IsSome(call.err))
          /\ call.op = "import_keys" => IsNone(call.obj)
          /\ call.op \in {"new_from_directory", "new_ephemeral"} => mech = "null"

\* A constructor given an error slot has failed creating the directory:
\* null, and one error of kind IoError.
C9_Witness ==
    /\ call.op = "new_from_directory"
    /\ call.slot
    /\ IsNone(call.ret)
    /\ IsSome(call.err)
    /\ Unwrap(call.err).kind = "IoError"
    /\ mech = "null"

\* C10: a sign or verify that returns null leaves the certificates of
\* the certificate store and the keys of the keystore as the call found
\* them, whichever step failed.
C10_FailureLeavesStores ==
    (call.op \in {"sign", "verify"} /\ IsNone(call.ret))
    => /\ certstore = call.pre.certstore
       /\ keystore = call.pre.keystore

\* A sign has failed as late as it can, writing the message, on stores
\* that hold certificates and keys.
C10_Witness ==
    /\ call.op = "sign"
    /\ IsNone(call.ret)
    /\ call.steps = <<"parse", "lookup", "select", "find_key", "unlock", "serialize">>
    /\ call.fault.at = "write"
    /\ certstore # <<>>
    /\ keystore # {}
    /\ certstore = call.pre.certstore

\* A verify has failed with "No valid signature" on stores that hold
\* certificates.
C10_WitnessVerify ==
    /\ call.op = "verify"
    /\ IsNone(call.ret)
    /\ call.steps # <<>>
    /\ call.steps[Len(call.steps)] = "check"
    /\ certstore # <<>>

\* The least number of a non-empty set of numbers.
Least(S) == CHOOSE n \in S : \A m \in S : n <= m

\* The positions in certificate c of the keys that are signing capable
\* and valid under policy p.
ValidSigningPositions(p, c) ==
    {j \in 1..Len(CertKeys(c)) :
        /\ CertKeys(c)[j] \in SigningCapable
        /\ PolicyAccepts(p, CertKeys(c)[1])
        /\ PolicyAccepts(p, CertKeys(c)[j])}

\* The fingerprint of the first valid signing key of the first stored
\* certificate, among those the handle resolves to, that has any.
FirstMatch(kh) ==
    LET cands == CertsWithKey(certstore, kh)
        having == {i \in 1..Len(cands) : ValidSigningPositions(policy, cands[i]) # {}}
    IN IF having = {} THEN None
       ELSE LET c == cands[Least(having)]
            IN Some(KeyFingerprint(CertKeys(c)[Least(ValidSigningPositions(policy, c))]))

\* C11: a sign that gets to the keystore asks it for one fingerprint,
\* once: that of the first valid signing key of the first candidate
\* certificate that has one.  When the keystore does not hold that key
\* the call fails with "No matching key in keystore", whatever other keys
\* of the candidates it holds; when the call succeeds, that key has signed.
C11_FirstMatch ==
    (/\ call.op = "sign"
     /\ IsSome(to_str(call.handle))
     /\ IsSome(ParseKeyHandle(call.handle))
     /\ call.fault.at \notin {"lookup", "find_key"}
     /\ call.password # Some(NonUtf8))
    => LET first == FirstMatch(Unwrap(ParseKeyHandle(call.handle))) IN
       /\ IsSome(call.ret) =>
             /\ IsSome(first)
             /\ KeyFingerprint(IssuerOf(call.ret)) = Unwrap(first)
       /\ IsSome(first) =>
             /\ Count(call.steps, "find_key") = 1
             /\ find_key(keystore, Unwrap(first)) = <<>> =>
                   /\ IsNone(call.ret)
                   /\ call.steps = <<"parse", "lookup", "select", "find_key">>
                   /\ call.slot => Unwrap(call.err).message
                                      = "No matching key in keystore"

\* A sign has failed with "No matching key in keystore" although the
\* keystore holds the key of a later fingerprint of the selection.
C11_Witness ==
    /\ call.op = "sign"
    /\ call.handle = to_hex(CertFingerprint("cA"))
    /\ certstore = <<"cC", "cA">>
    /\ policy = "default"
    /\ FirstMatch(CertFingerprint("cA")) = Some(KeyFingerprint("kC1"))
    /\ "kA1" \in keystore
    /\ IsNone(call.ret)
    /\ call.slot
    /\ Unwrap(call.err).message = "No matching key in keystore"

\* The steps of a sign in which nothing fails.
SignSteps(password) ==
    <<"parse", "lookup", "select", "find_key">>
    \o (IF IsSome(password) THEN <<"unlock">> ELSE <<>>)
    \o <<"serialize">>

\* The message of the error a call wrote, "" when it wrote none.
ErrMessage == IF IsSome(call.err) THEN Unwrap(call.err).message ELSE ""

\* A sign whose strings were UTF-8, so that SequoiaMechanism::sign ran.
SignRan ==
    /\ call.op = "sign"
    /\ IsSome(to_str(call.handle))
    /\ call.password # Some(NonUtf8)

\* C12: sign takes its steps in one order, parse, lookup, selection,
\* keystore, unlock (only with a password), serialization, stops at the
\* first that fails and reports that failure alone, whatever else would
\* have failed later; a failed sign returns no bytes and one error.
C12_SignCheckOrder ==
    SignRan =>
       LET kh == ParseKeyHandle(call.handle)
           full == SignSteps(call.password)
           stopsAt(n, m) == /\ IsNone(call.ret)
                            /\ call.steps = SubSeq(full, 1, n)
                            /\ call.slot => ErrMessage = m
       IN
       /\ \E n \in 1..Len(full) : call.steps = SubSeq(full, 1, n)
       /\ IsSome(call.ret) => call.steps = full /\ IsNone(call.err)
       /\ IsNone(call.ret) => (call.slot <=> IsSome(call.err))
       /\ IF IsNone(kh) THEN stopsAt(1, "Malformed key handle")
          ELSE IF call.fault.at = "lookup" \/ CertsWithKey(certstore, Unwrap(kh)) = <<>>
          THEN stopsAt(2, "Failed to load key from certificate store")
          ELSE IF IsNone(FirstMatch(Unwrap(kh)))
          THEN stopsAt(3, "No matching signing key")
          ELSE IF call.fault.at = "find_key"
          THEN stopsAt(4, "keystore failure")
          ELSE IF find_key(keystore, Unwrap(FirstMatch(Unwrap(kh)))) = <<>>
          THEN stopsAt(4, "No matching key in keystore")
          ELSE /\ Len(call.steps) > 4
               /\ IsSome(call.password) <=> Count(call.steps, "unlock") = 1
               /\ (IsNone(call.ret) /\ call.steps # full)
                     => stopsAt(5, "unlock failed")

\* A sign for a certificate without a valid signing key has reported
\* that, and nothing of the wrong password and the failing write that
\* would have stopped it later.
C12_Witness ==
    /\ SignRan
    /\ call.fault.at = "write"
    /\ call.password = Some(WrongPassword)
    /\ call.slot
    /\ call.steps = <<"parse", "lookup", "select">>
    /\ ErrMessage = "No matching signing key"
    /\ certstore # <<>>

\* A sign given a password has failed in the keystore lookup before any
\* unlock.
C12_WitnessKeystore ==
    /\ SignRan
    /\ IsSome(call.password)
    /\ call.slot
    /\ ErrMessage = "No matching key in keystore"
    /\ Count(call.steps, "unlock") = 0

\* The layers of a structure that are signature groups with a good result.
GoodGroups(structure) ==
    {i \in 1..Len(structure) :
        /\ structure[i].t = "sigs"
        /\ \E j \in 1..Len(structure[i].results) : structure[i].results[j].ok}

\* C13: for every list of layers, check sets as signer the certificate of
\* the first good result of the first signature group that has a good
\* result and takes no layer after that one; without such a group it
\* takes every layer, sets no signer and fails.
C13_StructureCheck ==
    call.op = "check" =>
       LET structure == call.msg
           r == Unwrap(call.ret)
           good == GoodGroups(structure)
       IN IF good = {}
          THEN /\ ~r.ok
               /\ IsNone(r.signer)
               /\ r.examined = Len(structure)
          ELSE LET i == Least(good)
                   j == Least({n \in 1..Len(structure[i].results) :
                                  structure[i].results[n].ok})
               IN /\ r.ok
                  /\ r.signer = Some(structure[i].results[j].cert)
                  /\ r.examined = i

\* check has skipped a group with only a bad result, then in the next
\* group a bad result, and has set the signer of the good result after
\* it, not that of the still later one.
C13_Witness ==
    /\ call.op = "check"
    /\ Len(call.msg) = 2
    /\ call.msg[1] = [t |-> "sigs", results |-> <<[ok |-> FALSE, cert |-> NoCert]>>]
    /\ call.msg[2].t = "sigs"
    /\ call.msg[2].results = <<[ok |-> TRUE, cert |-> "cB"], [ok |-> TRUE, cert |-> "cA"]>>
    /\ Unwrap(call.ret).signer = Some("cB")

\* check has stopped at the first of two groups that both have a good
\* result.
C13_WitnessStops ==
    /\ call.op = "check"
    /\ Len(call.msg) = 2
    /\ GoodGroups(call.msg) = {1, 2}
    /\ call.msg[1].results[1].cert # call.msg[2].results[1].cert
    /\ Unwrap(call.ret).examined = 1
    /\ Unwrap(call.ret).signer = Some(call.msg[1].results[1].cert)

\* C14: helper.signer is none when the Helper is made; once set it keeps
\* its value to the end of the call, and it is set at most once; check
\* returns Ok exactly when it has set it; verify returns a result exactly
\* when the signer is set, with the fingerprint of that certificate as
\* signer, and fails with "No valid signature" otherwise.
C14_SignerMonotonic ==
    /\ [](call.op = "helper" =>
            /\ call.steps = <<"helper">> => IsNone(call.obj)
            /\ Count(call.steps, "set") <= 1
            /\ IsSome(call.obj) <=> Count(call.steps, "set") = 1
            /\ LastStep(call) = "set" => IsSome(call.obj)
            /\ LastStep(call) = "err" => IsNone(call.obj)
            /\ LastStep(call) = "done" =>
                  /\ IsSome(call.ret) <=> IsSome(call.obj)
                  /\ IsSome(call.ret) =>
                        /\ IsNone(call.err)
                        /\ Unwrap(call.ret).signer
                              = to_hex(CertFingerprint(Unwrap(call.obj)))
                        /\ check(call.msg).signer = call.obj
                  /\ IsNone(call.ret) =>
                        /\ IsSome(call.err)
                        /\ Unwrap(call.err).message = "No valid signature"
                        /\ ~check(call.msg).ok)
    /\ [][(call.op = "helper" /\ call'.op = "helper" /\ IsSome(call.obj))
             => call'.obj = call.obj]_vars
    /\ [][(call.op # "helper" /\ call'.op = "helper") => IsNone(call'.obj)]_vars

\* verify has returned the fingerprint of cB, the signer check set in the
\* first of two groups that both hold a good result.
C14_Witness ==
    /\ call.op = "helper"
    /\ LastStep(call) = "done"
    /\ GoodGroups(call.msg) = {1, 2}
    /\ call.msg[2].results[1].cert = "cA"
    /\ call.obj = Some("cB")
    /\ IsSome(call.ret)
    /\ Unwrap(call.ret).signer = to_hex(CertFingerprint("cB"))

\* verify has failed with "No valid signature" after check took two
\* layers without setting a signer.
C14_WitnessNone ==
    /\ call.op = "helper"
    /\ call.steps = <<"helper", "layer", "layer", "err", "done">>
    /\ IsNone(call.ret)
    /\ IsNone(call.obj)

\* The certificates the store holds for the references, reference by
\* reference: the union the resolution is to return.
RECURSIVE ResolvableCerts(_, _)
ResolvableCerts(store, ids) ==
    IF ids = <<>> THEN <<>>
    ELSE CertsWithKey(store, ids[1]) \o ResolvableCerts(store, Tail(ids))

\* A verify that got to resolve the issuers of a well-formed message,
\* with no failure of the store itself.
Resolving ==
    /\ call.op = "verify"
    /\ call.msg # <<>>
    /\ call.msg[1].wf
    /\ call.fault = NoFault

\* C15: the helper resolves the references of a message to the union of
\* the certificates the store holds for each; a reference the store has
\* no certificate for adds nothing and does not make the resolution fail.
C15_NoMatchIsNoError ==
    Resolving =>
       LET ids == Issuers(call.msg[1].layers) IN
       /\ get_certs(certstore, ids).ok
       /\ get_certs(certstore, ids).certs = ResolvableCerts(certstore, ids)
       /\ Len(call.steps) >= 5
       /\ call.steps[5] = "check"

\* C15, as the code behaves: the resolution succeeds, with that union,
\* exactly when the store has a certificate for every reference; one
\* reference without a match fails it, no certificate is returned for
\* the others, and verify fails before any check of the structure.
C15_ResolutionAllOrNothing ==
    Resolving =>
       LET ids == Issuers(call.msg[1].layers)
           r == get_certs(certstore, ids)
       IN /\ r.ok <=> \A i \in 1..Len(ids) : CertsWithKey(certstore, ids[i]) # <<>>
          /\ r.ok => /\ r.certs = ResolvableCerts(certstore, ids)
                     /\ Len(call.steps) >= 5
          /\ ~r.ok => /\ r.certs = <<>>
                      /\ IsNone(call.ret)
                      /\ call.steps = <<"helper", "policy", "parse", "get_certs">>

\* verify has failed resolving the issuers of a message with two
\* signatures, of which the store holds the certificate of the second,
\* whose signature is good.
C15_Witness ==
    /\ Resolving
    /\ Issuers(call.msg[1].layers) = <<KeyFingerprint("kB2"), KeyFingerprint("kA1")>>
    /\ certstore = <<"cA">>
    /\ config = "default"
    /\ IsNone(call.ret)
    /\ call.steps = <<"helper", "policy", "parse", "get_certs">>

\* C16: import_keys of a non-empty blob on a mechanism without a
\* "softkeys" backend returns null and an error of kind Unknown, having
\* parsed no record; the keystore and the certificate store are as
\* before, whatever the blob holds.  (When listing the backends or
\* reading the id of one fails, the error is that failure's.)
C16_NoSoftkeys ==
    (/\ call.op = "import_keys"
     /\ call.blob # <<>>
     /\ ~softkeys)
    => /\ IsNone(call.ret)
       /\ IsNone(call.obj)
       /\ call.steps = <<"backends">>
       /\ Stores = call.pre
       /\ call.slot => /\ IsSome(call.err)
                       /\ call.fault.at \notin {"backends", "backend_id"}
                             => /\ Unwrap(call.err).kind = "Unknown"
                                /\ ErrMessage = "softkeys backend is not configured."

\* An import of a blob of malformed records only has failed for the
\* missing backend.
C16_Witness ==
    /\ call.op = "import_keys"
    /\ ~softkeys
    /\ call.blob = <<BadRecord, BadRecord>>
    /\ call.slot
    /\ IsNone(call.ret)
    /\ Unwrap(call.err).kind = "Unknown"
    /\ ErrMessage = "softkeys backend is not configured."

\* An import of a blob of two certificates has failed for the missing
\* backend.
C16_WitnessCerts ==
    /\ call.op = "import_keys"
    /\ ~softkeys
    /\ call.blob = <<"cA", "cB">>
    /\ IsNone(call.ret)
    /\ certstore = <<>>
    /\ keystore = {}

\* Whether a signature of a message is good under policy p, given the
\* certificate store: it is over the content, by a signing-capable key
\* of a stored certificate, and p accepts that key and the primary key of
\* the first stored certificate that has it.
GoodUnder(p, sig, content) ==
    LET holders == CertsWithKey(certstore, KeyFingerprint(sig.issuer)) IN
    /\ holders # <<>>
    /\ sig.over = content
    /\ sig.issuer \in SigningCapable
    /\ PolicyAccepts(p, sig.issuer)
    /\ PolicyAccepts(p, CertKeys(holders[1])[1])

\* C17: a verify judges the signatures of the message by the policy
\* configuration as it is at the time of that call, whatever policy the
\* mechanism loaded when it was constructed, and leaves the mechanism's
\* policy alone; a sign selects and signs by the policy loaded at
\* construction, whatever the configuration has become.
C17_PolicyFreshness ==
    /\ [](/\ (Resolving /\ get_certs(certstore, Issuers(call.msg[1].layers)).ok)
             => LET m == call.msg[1] IN
                IsSome(call.ret) <=>
                   \E i \in 1..Len(m.layers) :
                      \E j \in 1..Len(m.layers[i].sigs) :
                         GoodUnder(config, m.layers[i].sigs[j], m.content)
          /\ (SignRan /\ IsSome(call.ret))
             => /\ PolicyAccepts(policy, IssuerOf(call.ret))
                /\ KeyFingerprint(IssuerOf(call.ret))
                      = Unwrap(FirstMatch(Unwrap(ParseKeyHandle(call.handle)))))
    /\ [][call'.op \in {"sign", "verify"} => policy' = policy]_vars

\* The mechanism was constructed under the default policy and has signed
\* with the legacy key; the configuration was then hardened, and the
\* verify of those bytes has rejected the signature.
C17_Witness ==
    /\ call.op = "verify"
    /\ call.chained
    /\ call.fault = NoFault
    /\ policy = "default"
    /\ config = "hardened"
    /\ IssuerOf(call.msg) = "kA1"
    /\ IsNone(call.ret)
    /\ call.steps = <<"helper", "policy", "parse", "get_certs", "check">>

\* The mechanism was constructed under the hardened policy; under the
\* default configuration of now, a verify has accepted a signature of
\* the legacy key.
C17_WitnessRelaxed ==
    /\ call.op = "verify"
    /\ policy = "hardened"
    /\ config = "default"
    /\ IsSome(call.ret)
    /\ Unwrap(call.ret).signer = to_hex(CertFingerprint("cA"))

\* A sign has used the legacy key under the policy of construction,
\* with the configuration already hardened.
C17_WitnessSign ==
    /\ SignRan
    /\ IsSome(call.ret)
    /\ IssuerOf(call.ret) = "kA1"
    /\ policy = "default"
    /\ config = "hardened"
    /\ call.pre.certstore # <<>>

\* The secret key material certificate c carries.
SecretsOf(c) == KeySet(c) \cap HasSecret

\* C18: the keystore holds the secret key material of every certificate
\* in the certificate store, in every state, those after an import that
\* failed at some record and those of a mechanism opened on the directory
\* of an earlier one included.
C18_KeysBeforeCerts ==
    \A i \in 1..Len(certstore) : SecretsOf(certstore[i]) \subseteq keystore

\* An import of two certificates has failed at the second: the first is
\* in the certificate store with its keys in the keystore, the second is
\* not in the store.
C18_Witness ==
    /\ call.op = "import_keys"
    /\ call.blob = <<"cA", "cB">>
    /\ call.fault.i = 2
    /\ IsNone(call.ret)
    /\ certstore = <<"cA">>
    /\ SecretsOf("cA") \subseteq keystore
    /\ SecretsOf("cA") # {}

\* A mechanism opened again on the directory of an earlier one has found
\* there the certificate that one imported, and its keys.
C18_WitnessReopened ==
    /\ call.op = "new_from_directory"
    /\ call.dir = "same"
    /\ IsSome(call.ret)
    /\ mech = "dir"
    /\ certstore = <<"cA">>
    /\ SecretsOf("cA") \subseteq keystore
    /\ SecretsOf("cA") # {}

\* The certificates among the first n records of a blob, in order.
RECURSIVE CertsAmong(_, _)
CertsAmong(blob, n) ==
    IF n = 0 THEN <<>>
    ELSE CertsAmong(blob, n - 1)
         \o (IF blob[n] = BadRecord THEN <<>> ELSE <<blob[n]>>)

\* The certificate store after the certificates were registered in it,
\* one after the other.
RECURSIVE StoreWith(_, _)
StoreWith(store, certs) ==
    IF certs = <<>> THEN store
    ELSE StoreWith(StoreUpdate(store, certs[1]), Tail(certs))

\* C19: an import in which the key import or the store update of record
\* k fails returns null, an error and no key handle, while every
\* certificate before k stays in the certificate store and its keys in
\* the keystore; when it was the store update that failed, the keys of
\* record k are in the keystore as well.
C19_ImportNotAtomic ==
    (/\ call.op = "import_keys"
     /\ softkeys
     /\ call.fault.at \in {"import", "update"})
    => LET k == call.fault.i
           before == CertsAmong(call.blob, k - 1)
           keyed == IF call.fault.at = "update"
                    THEN Append(before, call.blob[k]) ELSE before
       IN /\ IsNone(call.ret)
          /\ IsNone(call.obj)
          /\ call.slot <=> IsSome(call.err)
          /\ certstore = StoreWith(call.pre.certstore, before)
          /\ keystore = call.pre.keystore
                        \cup UNION {SecretsOf(keyed[i]) : i \in 1..Len(keyed)}
          /\ unlocked = call.pre.unlocked

\* An import of two certificates into empty stores has failed at the key
\* import of the second; the first stays in the store and the keystore,
\* and the caller got no key handle.
C19_Witness ==
    /\ call.op = "import_keys"
    /\ call.blob = <<"cB", "cA">>
    /\ call.fault = [at |-> "import", i |-> 2]
    /\ call.pre.certstore = <<>>
    /\ call.pre.keystore = {}
    /\ certstore = <<"cB">>
    /\ keystore = SecretsOf("cB")
    /\ IsNone(call.ret)
    /\ IsNone(call.obj)

====
